---- MODULE Spec2Model ----
(***************************************************************************)
(* State-machine model of the command-line option library                  *)
(* (include/CommandLineOption.hpp, src/CommandLineOption.cpp).             *)
(*                                                                         *)
(* A std::string is a sequence of one-character strings; argv[i] of the    *)
(* C++ code is Arg(i) (argv is kept 0-based through Arg).  Option objects  *)
(* live in `heap` and the option maps hold their addresses, as the         *)
(* std::shared_ptr<Option> vectors of OptionMap do.  Description texts     *)
(* (descript_m, Value::name_m) take no part in parsing and are left out.   *)
(***************************************************************************)
EXTENDS Integers, Sequences, FiniteSets, TLC

VARIABLES
    heap,       \* the Option objects, by address (1..Len(heap))
    map_m,      \* CommandLineOption::map_m, the registered template
    result,     \* the local `result` of parse (and the map it returns)
    argc,       \* parse's argc
    argv,       \* parse's argv (argv[0] is the program name)
    p,          \* parse's cursor
    pc,         \* "idle" | "parse" | "done" | "error"
    err,        \* the exception parse left with, "none" if none
    trace,      \* history: one event per loop iteration that did not throw
    ret,        \* what the caller's last query of the returned map gave back
    vinfo       \* a Value<T> descriptor the caller is configuring

vars == <<heap, map_m, result, argc, argv, p, pc, err, trace, ret, vinfo>>

\* ------------------------------------------------------------------ bounds
MaxOptions == 2
MaxArgc == 3
MaxLimit == 3

\* --------------------------------------------------------------- std::string
\* Stand-in for std::numeric_limits<std::size_t>::max() (and std::string::npos):
\* larger than every length and index of the model.
SIZE_MAX == 2147483647

npos == SIZE_MAX

\* str[i] of a NUL-terminated C string (0-based)
NUL == "NUL"

CharAt(str, i) == IF i < Len(str) THEN str[i + 1] ELSE NUL

\* std::string::find(ch)
find(str, ch) ==
    IF \E i \in 1..Len(str) : str[i] = ch
    THEN (CHOOSE i \in 1..Len(str) : str[i] = ch /\ \A j \in 1..(i - 1) : str[j] # ch) - 1
    ELSE npos

\* std::string::substr(pos, n); n = npos takes the rest
substr(str, pos, n) ==
    IF n = npos \/ pos + n > Len(str) THEN SubSeq(str, pos + 1, Len(str))
    ELSE SubSeq(str, pos + 1, pos + n)

\* name.length() - 1 in std::size_t arithmetic
LengthMinus1(str) == IF Len(str) = 0 THEN SIZE_MAX ELSE Len(str) - 1

\* is_option without the test for the end of the string after the first '-'
is_option_loose(str) ==
    CharAt(str, 0) = "-" /\ CharAt(str, 1) # "-"

is_option(str) ==
    CharAt(str, 0) = "-" /\ CharAt(str, 1) # "-" /\ CharAt(str, 1) # NUL

is_long_option(str) ==
    CharAt(str, 0) = "-" /\ CharAt(str, 1) = "-" /\ CharAt(str, 2) # "-" /\ CharAt(str, 2) # NUL

\* std::getline in a loop: a trailing empty field is not produced
RECURSIVE split(_, _)
split(input, delimiter) ==
    IF input = <<>> THEN <<>>
    ELSE LET i == find(input, delimiter)
         IN IF i = npos THEN <<input>>
            ELSE <<substr(input, 0, i)>> \o split(substr(input, i + 1, npos), delimiter)

\* ------------------------------------------------------------- transform<T>
DigitChars == <<"0", "1", "2", "3", "4", "5", "6", "7", "8", "9">>

IsDigit(ch) == \E i \in 1..10 : DigitChars[i] = ch

DigitValue(ch) == (CHOOSE i \in 1..10 : DigitChars[i] = ch) - 1

RECURSIVE DecimalValue(_)
DecimalValue(digits) ==
    IF digits = <<>> THEN 0
    ELSE 10 * DecimalValue(SubSeq(digits, 1, Len(digits) - 1)) + DigitValue(digits[Len(digits)])

RECURSIVE SkipWs(_)
SkipWs(str) == IF str # <<>> /\ Head(str) = " " THEN SkipWs(Tail(str)) ELSE str

RECURSIVE SkipZeros(_)
SkipZeros(str) == IF Len(str) > 1 /\ Head(str) = "0" THEN SkipZeros(Tail(str)) ELSE str

\* operator>>(int&) followed by the end-of-input test: optional white space, an
\* optional sign, decimal digits and nothing else.  Ten or more significant digits
\* are treated as out of the range of int.
transform_int(str) ==
    LET s1 == SkipWs(str)
        signed == s1 # <<>> /\ Head(s1) \in {"+", "-"}
        s2 == IF signed THEN Tail(s1) ELSE s1
        digits == SkipZeros(s2)
    IN IF s2 = <<>> \/ (\E i \in 1..Len(s2) : ~IsDigit(s2[i])) \/ Len(digits) > 9
       THEN [ok |-> FALSE, value |-> 0]
       ELSE [ok |-> TRUE,
             value |-> IF signed /\ Head(s1) = "-" THEN 0 - DecimalValue(digits)
                       ELSE DecimalValue(digits)]

transform(T, str) ==
    IF T = "string" THEN [ok |-> TRUE, value |-> str] ELSE transform_int(str)

\* ------------------------------------------------------- OPTION_ARG_PATTERN
NONE == 0
NEXT_ARG == 1
EQUAL_SIGN == 2
ALL_AVAILABLE == 3

\* int(ref) & int(pattern) on the two bits of the enumeration
BitAnd(a, b) == ((a % 2) * (b % 2)) + 2 * (((a \div 2) % 2) * ((b \div 2) % 2))

\* check_pattern that takes any capability for the one asked for
check_pattern_any(ref, pattern) ==
    IF pattern = NONE THEN ref = pattern ELSE ref # NONE

check_pattern(ref, pattern) ==
    IF pattern = NONE THEN ref = pattern ELSE BitAnd(ref, pattern) = pattern

\* ------------------------------------------------------------------ Value<T>
\* A constraint is a std::function<bool(T)>: "none" is the empty function.
Satisfies(f, x) == IF f = "lt3" THEN x < 3 ELSE TRUE

Value(T) == [T |-> T, default_value_m |-> <<>>, constraint_m |-> "none", limit_m |-> 1]

Value_x(T, x) == [Value(T) EXCEPT !.default_value_m = <<x>>]

Value_list(T, xs) == [Value(T) EXCEPT !.default_value_m = xs]

Value_limit(v, l) ==
    IF l = 0 \/ l < Len(v.default_value_m) THEN [thrown |-> "logic_error", v |-> v]
    ELSE [thrown |-> "none", v |-> [v EXCEPT !.limit_m = l]]

Value_unlimited(v) == [v EXCEPT !.limit_m = SIZE_MAX]

Value_constraint(v, f) ==
    IF \E i \in 1..Len(v.default_value_m) : ~Satisfies(f, v.default_value_m[i])
    THEN [thrown |-> "logic_error", v |-> v]
    ELSE [thrown |-> "none", v |-> [v EXCEPT !.constraint_m = f]]

\* -------------------------------------------------- Option, OptionHasValue<T>
OptionNameThrows(name) ==
    \/ Len(name) = 0
    \/ name[1] = "-"
    \/ find(name, "=") # npos
    \/ find(name, " ") # npos

\* new Option(name, desc, pattern)
Option(name, pattern) ==
    [cls |-> "Option", name_m |-> name, pattern_m |-> pattern, use_m |-> FALSE,
     value_info_m |-> Value("none"), value_m |-> <<>>, arg_pattern_m |-> NONE]

\* new OptionHasValue<T>(value_info, name, desc, pattern, arg_pattern)
OptionHasValue(value_info, name, pattern, arg_pattern) ==
    [cls |-> "OptionHasValue", name_m |-> name, pattern_m |-> pattern, use_m |-> FALSE,
     value_info_m |-> value_info, value_m |-> <<>>, arg_pattern_m |-> arg_pattern]

useable_argument(option) ==
    IF option.cls = "Option" THEN NONE ELSE option.arg_pattern_m

full_option_name(option) ==
    IF option.pattern_m = "OPTION" THEN <<"-">> \o option.name_m
    ELSE <<"-", "-">> \o option.name_m

\* OptionHasValue<T>::add_value(const T&), without the clamp at limit
add_value_unclamped(option, value) ==
    IF option.value_info_m.constraint_m # "none"
       /\ ~Satisfies(option.value_info_m.constraint_m, value)
    THEN [thrown |-> "constraint", option |-> option]
    ELSE [thrown |-> "none",
          option |-> [option EXCEPT !.value_m = Append(option.value_m, value),
                                    !.use_m = TRUE]]

\* OptionHasValue<T>::add_value(const T&) with the constraint tested after the store
add_value_checks_late(option, value) ==
    LET limit == option.value_info_m.limit_m
        kept == IF ~option.use_m THEN <<>> ELSE option.value_m
        stored == IF Len(kept) < limit THEN Append(kept, value)
                  ELSE [kept EXCEPT ![limit] = value]
    IN [thrown |-> IF option.value_info_m.constraint_m # "none"
                      /\ ~Satisfies(option.value_info_m.constraint_m, value)
                   THEN "constraint" ELSE "none",
        option |-> [option EXCEPT !.value_m = stored, !.use_m = TRUE]]

\* OptionHasValue<T>::add_value(const T&)
add_value(option, value) ==
    IF option.value_info_m.constraint_m # "none"
       /\ ~Satisfies(option.value_info_m.constraint_m, value)
    THEN [thrown |-> "constraint", option |-> option]
    ELSE LET limit == option.value_info_m.limit_m
             kept == IF ~option.use_m THEN <<>> ELSE option.value_m
             stored == IF Len(kept) < limit THEN Append(kept, value)
                       ELSE [kept EXCEPT ![limit] = value]
         IN [thrown |-> "none",
             option |-> [option EXCEPT !.value_m = stored, !.use_m = TRUE]]

\* OptionHasValue<T>::add_value(const std::vector<T>&)
RECURSIVE add_values(_, _)
add_values(option, values) ==
    IF values = <<>> THEN [thrown |-> "none", option |-> option]
    ELSE LET r == add_value(option, Head(values))
         IN IF r.thrown # "none" THEN r ELSE add_values(r.option, Tail(values))

\* Option::add_value_s and OptionHasValue<T>::add_value_s
add_value_s(option, value_s) ==
    IF option.cls = "Option" THEN [thrown |-> "cannot_take_value", option |-> option]
    ELSE LET t == transform(option.value_info_m.T, value_s)
         IN IF ~t.ok THEN [thrown |-> "conversion", option |-> option]
            ELSE add_value(option, t.value)

\* ------------------------------------------------------------------ OptionMap
EmptyMap ==
    [options_m |-> <<>>, long_options_m |-> <<>>, order_options_m |-> <<>>,
     none_options_m |-> <<>>]

\* the objects the template owns: registration is the only allocation besides clone
TemplateHeap == SubSeq(heap, 1, Len(map_m.order_options_m))

\* OptionMap::clone as a copy of the shared_ptr vectors (no Option is copied)
clone_shallow(m, h) == [map |-> m, heap |-> h]

\* OptionMap::clone: every option is copied (Option::clone) in registration order
clone(m, h) ==
    LET n == Len(h)
        order == m.order_options_m
        fresh == [k \in 1..Len(order) |-> n + k]
        h2 == h \o [k \in 1..Len(order) |-> h[order[k]]]
    IN [map |-> [options_m |-> SelectSeq(fresh, LAMBDA id : h2[id].pattern_m = "OPTION"),
                 long_options_m |-> SelectSeq(fresh, LAMBDA id : h2[id].pattern_m = "LONG_OPTION"),
                 order_options_m |-> fresh,
                 none_options_m |-> m.none_options_m],
        heap |-> h2]

\* ---------------------------------------------------------------- AddOptions
\* AddOptions::o(name, desc) and AddOptions::l(name, desc)
AddFlag(name, pattern) ==
    /\ ~OptionNameThrows(name)
    /\ heap' = Append(heap, Option(name, pattern))
    /\ map_m' = IF pattern = "OPTION"
                THEN [map_m EXCEPT !.options_m = Append(@, Len(heap) + 1),
                                   !.order_options_m = Append(@, Len(heap) + 1)]
                ELSE [map_m EXCEPT !.long_options_m = Append(@, Len(heap) + 1),
                                   !.order_options_m = Append(@, Len(heap) + 1)]

\* the tail of AddOptions::o(name, value, desc) and AddOptions::l(name, value, desc)
AddValued(value, name, pattern, arg_pattern) ==
    LET temp == OptionHasValue(value, name, pattern, arg_pattern)
        seeded == IF value.default_value_m # <<>>
                  THEN add_values(temp, value.default_value_m)
                  ELSE [thrown |-> "none", option |-> temp]
    IN /\ ~OptionNameThrows(name)
       /\ arg_pattern # NONE
       /\ seeded.thrown = "none"
       /\ heap' = Append(heap, seeded.option)
       /\ map_m' = IF pattern = "OPTION"
                   THEN [map_m EXCEPT !.options_m = Append(@, Len(heap) + 1),
                                      !.order_options_m = Append(@, Len(heap) + 1)]
                   ELSE [map_m EXCEPT !.long_options_m = Append(@, Len(heap) + 1),
                                      !.order_options_m = Append(@, Len(heap) + 1)]

\* the capability and the bare name AddOptions::l(name, value, desc) derives from name
l_arg_pattern(name) ==
    IF find(name, "=") = LengthMinus1(name) THEN EQUAL_SIGN
    ELSE IF find(name, " ") = LengthMinus1(name) THEN NEXT_ARG
    ELSE ALL_AVAILABLE

l_name(name) ==
    IF find(name, "=") = LengthMinus1(name) THEN substr(name, 0, find(name, "="))
    ELSE IF find(name, " ") = LengthMinus1(name) THEN substr(name, 0, find(name, " "))
    ELSE name

\* ------------------------------------------------------- inputs of the model
ProgName == <<"p", "r", "o", "g">>

ShortFlagNames == {<<"f">>}

LongFlagNames == {<<"c">>, <<"-", "c">>}

IntDefault5 == Value_x("int", 5)

ShortValued ==
    {<<<<"n">>, IntDefault5>>}

LongValued ==
    {<<<<"c", "=">>, Value_limit(IntDefault5, 3).v>>,
     <<<<"c", "=">>, Value_limit(Value("int"), 2).v>>,
     <<<<"c", " ">>, Value_unlimited(Value("string"))>>,
     <<<<"c">>, Value_constraint(Value_list("int", <<1, 2>>), "lt3").v>>}

Tokens ==
    {<<"-", "f">>, <<"-", "n">>, <<"-", "5">>, <<"-", "f", "n">>, <<"-", "n", "=", "5">>,
     <<"-", "-", "c">>, <<"-", "-", "c", "=">>,
     <<"-", "-", "c", "=", "1", ",", "2", ",", "3">>, <<"-", "-", "c", "=", "1", ",">>,
     <<"7">>, <<"-">>, <<"-", "-">>, <<"-", "-", "-">>}

ArgVectors == UNION {[1..n -> Tokens] : n \in 0..(MaxArgc - 1)}

Arg(i) == argv[i + 1]

\* --------------------------------------------------------------------- Init
\* no query made yet
NoCall ==
    [op |-> "none", arg |-> <<>>, type |-> "none", thrown |-> "none", id |-> 0, value |-> <<>>]

\* no descriptor under construction
NoValue ==
    [info |-> Value("none"), name_m |-> "arg", op |-> "none", n |-> 0, thrown |-> "none"]

Init ==
    /\ heap = <<>>
    /\ map_m = EmptyMap
    /\ result = EmptyMap
    /\ argc = 0
    /\ argv = <<>>
    /\ p = 0
    /\ pc = "idle"
    /\ err = "none"
    /\ trace = <<>>
    /\ ret = NoCall
    /\ vinfo = NoValue

\* ------------------------------------------------------------- registration
CanRegister == pc = "idle" /\ Len(map_m.order_options_m) < MaxOptions

RegFrame == UNCHANGED <<result, argc, argv, p, pc, err, trace, ret, vinfo>>

\* add_options().o(name, desc)
o_flag ==
    /\ CanRegister
    /\ \E name \in ShortFlagNames : AddFlag(name, "OPTION")
    /\ RegFrame

\* add_options().o(name, value, desc)
o_value ==
    /\ CanRegister
    /\ \E nv \in ShortValued : AddValued(nv[2], nv[1], "OPTION", ALL_AVAILABLE)
    /\ RegFrame

\* add_options().l(name, desc)
l_flag ==
    /\ CanRegister
    /\ \E name \in LongFlagNames : AddFlag(name, "LONG_OPTION")
    /\ RegFrame

\* add_options().l(name, value, desc)
l_value ==
    /\ CanRegister
    /\ \E nv \in LongValued :
          AddValued(nv[2], l_name(nv[1]), "LONG_OPTION", l_arg_pattern(nv[1]))
    /\ RegFrame

\* -------------------------------------------------- CommandLineOption::parse
\* OptionMap result = this->map_m.clone(); int p = 1;
ParseFrom(vectors) ==
    /\ pc = "idle"
    /\ \E av \in vectors :
          /\ argv' = <<ProgName>> \o av
          /\ argc' = Len(av) + 1
    /\ LET c == clone(map_m, heap)
       IN heap' = c.heap /\ result' = c.map
    /\ p' = 1
    /\ pc' = "parse"
    /\ err' = "none"
    /\ trace' = <<>>
    /\ UNCHANGED <<map_m, ret, vinfo>>

ParseBegin == ParseFrom(ArgVectors)

\* what one pass through the body of `while (p < argc)` leaves behind
Outcome(thrown, h, newp, target, values) ==
    [thrown |-> thrown, heap |-> h, p |-> newp, target |-> target, values |-> values]

Event(kind, target, consumed, values) ==
    [at |-> p, kind |-> kind, target |-> target, consumed |-> consumed, values |-> values]

\* a pass that ends where it began is recorded once; the loop then repeats it unchanged
Record(kind, out) ==
    IF out.p = p /\ trace # <<>> /\ trace[Len(trace)].at = p THEN trace
    ELSE Append(trace, Event(kind, out.target, out.p - p, out.values))

Apply(kind, out) ==
    IF out.thrown # "none"
    THEN /\ pc' = "error"
         /\ err' = out.thrown
         /\ heap' = out.heap
         /\ UNCHANGED <<map_m, result, argc, argv, p, trace, ret, vinfo>>
    ELSE /\ heap' = out.heap
         /\ p' = out.p
         /\ trace' = Record(kind, out)
         /\ UNCHANGED <<map_m, result, argc, argv, pc, err, ret, vinfo>>

\* the look-ahead without the test that the next argument is no option
NextArgMissing_bounds_only ==
    p + 1 >= argc

\* the look-ahead of both NEXT_ARG branches
NextArgMissing ==
    p + 1 >= argc \/ is_option(Arg(p + 1)) \/ is_long_option(Arg(p + 1))

\* option->add_value_s(argv[p + 1]) followed by ++p in place of p += 2
TakeNextArg_single_step(id) ==
    LET r == add_value_s(heap[id], Arg(p + 1))
    IN IF r.thrown # "none"
       THEN Outcome(r.thrown, [heap EXCEPT ![id] = r.option], p, id, <<>>)
       ELSE Outcome("none", [heap EXCEPT ![id] = r.option], p + 1, id,
                    <<transform(heap[id].value_info_m.T, Arg(p + 1)).value>>)

\* option->add_value_s(argv[p + 1]); p += 2;
TakeNextArg(id) ==
    LET r == add_value_s(heap[id], Arg(p + 1))
    IN IF r.thrown # "none"
       THEN Outcome(r.thrown, [heap EXCEPT ![id] = r.option], p, id, <<>>)
       ELSE Outcome("none", [heap EXCEPT ![id] = r.option], p + 2, id,
                    <<transform(heap[id].value_info_m.T, Arg(p + 1)).value>>)

\* option->use(true); ++p;
MarkUsed(id) ==
    Outcome("none", [heap EXCEPT ![id].use_m = TRUE], p + 1, id, <<>>)

\* for (auto& option : result.options()) of the short-option branch, from index k
RECURSIVE OptionLoop(_)
OptionLoop(k) ==
    IF k > Len(result.options_m) THEN Outcome("unrecognized", heap, p, 0, <<>>)
    ELSE LET id == result.options_m[k]
         IN IF full_option_name(heap[id]) = Arg(p)
            THEN IF check_pattern(useable_argument(heap[id]), NEXT_ARG)
                 THEN IF NextArgMissing
                      THEN Outcome("requires_argument", heap, p, id, <<>>)
                      ELSE TakeNextArg(id)
                 ELSE MarkUsed(id)
            ELSE OptionLoop(k + 1)

\* for (const auto& e : values_s) option->add_value_s(e);
RECURSIVE AddPieces(_, _, _)
AddPieces(option, pieces, done) ==
    IF pieces = <<>> THEN [thrown |-> "none", option |-> option, values |-> done]
    ELSE LET r == add_value_s(option, Head(pieces))
         IN IF r.thrown # "none"
            THEN [thrown |-> r.thrown, option |-> r.option, values |-> done]
            ELSE AddPieces(r.option, Tail(pieces),
                           Append(done, transform(option.value_info_m.T, Head(pieces)).value))

\* the EQUAL_SIGN branch without the test for an empty value after '='
TakeEqualSign_unchecked(id, value_s, i) ==
    LET r == AddPieces(heap[id], split(substr(value_s, i + 1, npos), ","), <<>>)
    IN IF r.thrown # "none"
       THEN Outcome(r.thrown, [heap EXCEPT ![id] = r.option], p, id, r.values)
       ELSE Outcome("none", [heap EXCEPT ![id] = r.option], p + 1, id, r.values)

\* the EQUAL_SIGN branch of the long-option loop body
TakeEqualSign(id, value_s, i) ==
    IF i = LengthMinus1(value_s) THEN Outcome("missing_value", heap, p, id, <<>>)
    ELSE LET r == AddPieces(heap[id], split(substr(value_s, i + 1, npos), ","), <<>>)
         IN IF r.thrown # "none"
            THEN Outcome(r.thrown, [heap EXCEPT ![id] = r.option], p, id, r.values)
            ELSE Outcome("none", [heap EXCEPT ![id] = r.option], p + 1, id, r.values)

\* for (auto& option : result.long_options()) of the long-option branch, from index k
RECURSIVE LongOptionLoop(_, _, _)
LongOptionLoop(k, value_s, i) ==
    IF k > Len(result.long_options_m) THEN Outcome("unrecognized", heap, p, 0, <<>>)
    ELSE LET id == result.long_options_m[k]
         IN IF full_option_name(heap[id]) = substr(value_s, 0, i)
            THEN IF i # npos /\ check_pattern(useable_argument(heap[id]), EQUAL_SIGN)
                 THEN TakeEqualSign(id, value_s, i)
                 ELSE IF i = npos
                      THEN IF check_pattern(useable_argument(heap[id]), NEXT_ARG)
                           THEN IF NextArgMissing
                                THEN Outcome("requires_argument", heap, p, id, <<>>)
                                ELSE TakeNextArg(id)
                           ELSE IF check_pattern(useable_argument(heap[id]), NONE)
                                THEN MarkUsed(id)
                                \* neither branch: exist = true; break; with p as it was
                                ELSE Outcome("none", heap, p, id, <<>>)
                      ELSE LongOptionLoop(k + 1, value_s, i)
            ELSE LongOptionLoop(k + 1, value_s, i)

\* if (is_option(argv[p])) { ... }
ParseOption ==
    /\ pc = "parse" /\ p < argc
    /\ is_option(Arg(p))
    /\ Apply("option", OptionLoop(1))

\* else if (is_long_option(argv[p])) { ... }
ParseLongOption ==
    /\ pc = "parse" /\ p < argc
    /\ ~is_option(Arg(p)) /\ is_long_option(Arg(p))
    /\ Apply("long_option", LongOptionLoop(1, Arg(p), find(Arg(p), "=")))

\* else { result.none_options().push_back(argv[p]); ++p; }
ParseNoneOption ==
    /\ pc = "parse" /\ p < argc
    /\ ~is_option(Arg(p)) /\ ~is_long_option(Arg(p))
    /\ result' = [result EXCEPT !.none_options_m = Append(@, Arg(p))]
    /\ p' = p + 1
    /\ trace' = Append(trace, Event("none_option", 0, 1, <<>>))
    /\ UNCHANGED <<heap, map_m, argc, argv, pc, err, ret, vinfo>>

\* return result;
ParseReturn ==
    /\ pc = "parse" /\ p >= argc
    /\ pc' = "done"
    /\ UNCHANGED <<heap, map_m, result, argc, argv, p, err, trace, ret, vinfo>>

\* the caller lets go of the returned map (or the exception has unwound parse)
Discard ==
    /\ pc \in {"done", "error"}
    /\ heap' = TemplateHeap
    /\ result' = EmptyMap
    /\ argc' = 0
    /\ argv' = <<>>
    /\ p' = 0
    /\ pc' = "idle"
    /\ err' = "none"
    /\ trace' = <<>>
    /\ ret' = NoCall
    /\ UNCHANGED <<map_m, vinfo>>

Next ==
    \/ o_flag
    \/ o_value
    \/ l_flag
    \/ l_value
    \/ ParseBegin
    \/ ParseOption
    \/ ParseLongOption
    \/ ParseNoneOption
    \/ ParseReturn
    \/ Discard

Spec == Init /\ [][Next]_vars

\* ------------------------------------------------ OptionMap::ouse, luse, use
\* for (auto& option : ids) if (option->name() == name) return OptionWrapper(option);
find_name(ids, name) ==
    LET hits == SelectSeq(ids, LAMBDA id : heap[id].name_m = name)
    IN IF hits = <<>> THEN 0 ELSE Head(hits)

\* the same loop with the test of the capability
find_name_pattern(ids, name, pattern) ==
    LET hits == SelectSeq(ids, LAMBDA id : /\ heap[id].name_m = name
                                           /\ check_pattern(useable_argument(heap[id]), pattern))
    IN IF hits = <<>> THEN 0 ELSE Head(hits)

\* return OptionWrapper(option), or the std::logic_error after the loops
Wrapper(id) == [thrown |-> IF id = 0 THEN "no_such_option" ELSE "none", id |-> id]

ouse(m, o) == Wrapper(find_name(m.options_m, o))

luse(m, l) ==
    LET i == find(l, "=")
    IN IF i = LengthMinus1(l)
       THEN Wrapper(find_name_pattern(m.long_options_m, substr(l, 0, i), EQUAL_SIGN))
       ELSE Wrapper(find_name(m.long_options_m, l))

use(m, o) ==
    LET i == find(o, "=")
        j == find(o, " ")
    IN IF i = LengthMinus1(o)
       THEN Wrapper(find_name_pattern(m.long_options_m, substr(o, 0, i), EQUAL_SIGN))
       ELSE IF j = LengthMinus1(o)
            THEN Wrapper(find_name_pattern(m.long_options_m, substr(o, 0, j), NEXT_ARG))
            ELSE IF find_name(m.options_m, o) # 0
                 THEN Wrapper(find_name(m.options_m, o))
                 ELSE Wrapper(find_name(m.long_options_m, o))

\* ------------------------------------------------------ OptionWrapper::as<T>
\* the requested types of the model
RequestedTypes == {"int", "string", "vector<int>", "vector<string>"}

\* to_value_type<T>::type
to_value_type(T) ==
    IF T = "vector<int>" THEN "int"
    ELSE IF T = "vector<string>" THEN "string"
    ELSE T

\* OptionHasValue<T>::as<U>, both overloads
OptionHasValue_as(option, U) ==
    IF Len(option.value_m) = 0 THEN [thrown |-> "no_value", value |-> <<>>]
    ELSE IF U = option.value_info_m.T THEN [thrown |-> "none", value |-> option.value_m[1]]
    ELSE [thrown |-> "none", value |-> option.value_m]

\* OptionWrapper::as<T> without the dynamic_cast to OptionHasValue<value_type>
OptionWrapper_as_uncast(option, T) ==
    IF check_pattern(useable_argument(option), NONE)
    THEN [thrown |-> "cannot_receive", value |-> <<>>]
    ELSE OptionHasValue_as(option, T)

OptionWrapper_as(option, T) ==
    IF check_pattern(useable_argument(option), NONE)
    THEN [thrown |-> "cannot_receive", value |-> <<>>]
    ELSE IF option.value_info_m.T # to_value_type(T)
         THEN [thrown |-> "bad_type", value |-> <<>>]
         ELSE OptionHasValue_as(option, T)

\* --------------------------------------------- queries of the returned map
LookupNames == {<<"f">>, <<"n">>, <<"c">>, <<"c", "=">>, <<"c", " ">>}

\* the argument vectors of the parses whose result is queried
QueryTokens ==
    {<<"-", "f">>, <<"-", "n">>, <<"-", "-", "c">>,
     <<"-", "-", "c", "=", "1", ",", "2", ",", "3">>, <<"7">>}

QueryArgVectors == UNION {[1..n -> QueryTokens] : n \in 0..(MaxArgc - 1)}

QueryParseBegin == ParseFrom(QueryArgVectors)

Lookup(op, name, w) ==
    [op |-> op, arg |-> name, type |-> "none", thrown |-> w.thrown, id |-> w.id, value |-> <<>>]

QueryFrame == UNCHANGED <<heap, map_m, result, argc, argv, p, pc, err, trace, vinfo>>

\* result.ouse(name)
call_ouse ==
    /\ pc = "done"
    /\ \E name \in LookupNames : ret' = Lookup("ouse", name, ouse(result, name))
    /\ QueryFrame

\* result.luse(name)
call_luse ==
    /\ pc = "done"
    /\ \E name \in LookupNames : ret' = Lookup("luse", name, luse(result, name))
    /\ QueryFrame

\* result.use(name)
call_use ==
    /\ pc = "done"
    /\ \E name \in LookupNames : ret' = Lookup("use", name, use(result, name))
    /\ QueryFrame

\* wrapper.as<T>() on the wrapper the last lookup returned
call_as ==
    /\ pc = "done"
    /\ ret.id # 0
    /\ \E T \in RequestedTypes :
          LET r == OptionWrapper_as(heap[ret.id], T)
          IN ret' = [op |-> "as", arg |-> ret.arg, type |-> T, thrown |-> r.thrown,
                     id |-> ret.id, value |-> r.value]
    /\ QueryFrame

NextQuery ==
    \/ o_flag
    \/ o_value
    \/ l_flag
    \/ l_value
    \/ QueryParseBegin
    \/ ParseOption
    \/ ParseLongOption
    \/ ParseNoneOption
    \/ ParseReturn
    \/ Discard
    \/ call_ouse
    \/ call_luse
    \/ call_use
    \/ call_as

SpecQuery == Init /\ [][NextQuery]_vars

\* ------------------------------------- construction of a Value<T> descriptor
\* Value<int>(), Value<int>(x), Value<int>({x1, ..., xk}) of the model
Constructed ==
    {Value("int"), Value_x("int", 1), Value_x("int", 5),
     Value_list("int", <<1, 2>>), Value_list("int", <<1, 2, 5>>)}

Constraints == {"lt3", "any"}

DisplayNames == {"arg", "num"}

InitValue ==
    /\ heap = <<>>
    /\ map_m = EmptyMap
    /\ result = EmptyMap
    /\ argc = 0
    /\ argv = <<>>
    /\ p = 0
    /\ pc = "idle"
    /\ err = "none"
    /\ trace = <<>>
    /\ ret = NoCall
    /\ \E c \in Constructed : vinfo = [NoValue EXCEPT !.info = c, !.op = "Value"]

ValueFrame == UNCHANGED <<heap, map_m, result, argc, argv, p, pc, err, trace, ret>>

\* value.limit(l)
Value_call_limit ==
    /\ \E l \in 0..MaxLimit :
          LET r == Value_limit(vinfo.info, l)
          IN vinfo' = [vinfo EXCEPT !.info = r.v, !.op = "limit", !.n = l, !.thrown = r.thrown]
    /\ ValueFrame

\* value.unlimited()
Value_call_unlimited ==
    /\ vinfo' = [vinfo EXCEPT !.info = Value_unlimited(vinfo.info), !.op = "unlimited",
                              !.n = 0, !.thrown = "none"]
    /\ ValueFrame

\* value.constraint(f)
Value_call_constraint ==
    /\ \E f \in Constraints :
          LET r == Value_constraint(vinfo.info, f)
          IN vinfo' = [vinfo EXCEPT !.info = r.v, !.op = "constraint", !.n = 0,
                                    !.thrown = r.thrown]
    /\ ValueFrame

\* value.name(n)
Value_call_name ==
    /\ \E name \in DisplayNames :
          vinfo' = [vinfo EXCEPT !.name_m = name, !.op = "name", !.n = 0, !.thrown = "none"]
    /\ ValueFrame

NextValue ==
    \/ Value_call_limit
    \/ Value_call_unlimited
    \/ Value_call_constraint
    \/ Value_call_name

SpecValue == InitValue /\ [][NextValue]_vars

\* ------------------------------------------- vocabulary of the properties
\* "-" followed by a character other than '-'
ClassifiesShort(tok) == Len(tok) >= 2 /\ tok[1] = "-" /\ tok[2] # "-"

\* "--" followed by a character other than '-'
ClassifiesLong(tok) == Len(tok) >= 3 /\ tok[1] = "-" /\ tok[2] = "-" /\ tok[3] # "-"

ClassifiesPositional(tok) == ~ClassifiesShort(tok) /\ ~ClassifiesLong(tok)

HasEq(tok) == \E i \in 1..Len(tok) : tok[i] = "="

EqPos(tok) == CHOOSE i \in 1..Len(tok) : tok[i] = "=" /\ \A j \in 1..(i - 1) : tok[j] # "="

BeforeEq(tok) == IF HasEq(tok) THEN SubSeq(tok, 1, EqPos(tok) - 1) ELSE tok

AfterEq(tok) == SubSeq(tok, EqPos(tok) + 1, Len(tok))

IsFlag(option) == option.cls = "Option"

HasNextArg(option) ==
    option.cls = "OptionHasValue" /\ option.arg_pattern_m \in {NEXT_ARG, ALL_AVAILABLE}

HasEqualSign(option) ==
    option.cls = "OptionHasValue" /\ option.arg_pattern_m \in {EQUAL_SIGN, ALL_AVAILABLE}

\* the first address of ids whose option satisfies Fits, 0 if there is none
FirstFit(ids, Fits(_)) ==
    IF \E k \in 1..Len(ids) : Fits(heap[ids[k]])
    THEN ids[CHOOSE k \in 1..Len(ids) :
                Fits(heap[ids[k]]) /\ \A j \in 1..(k - 1) : ~Fits(heap[ids[j]])]
    ELSE 0

AtToken == pc = "parse" /\ p < argc

\* the entity a short-option token at the cursor is dispatched to
ShortTarget ==
    IF AtToken /\ ClassifiesShort(Arg(p))
    THEN FirstFit(result.options_m, LAMBDA o : full_option_name(o) = Arg(p))
    ELSE 0

\* the entity a long-option token without '=' at the cursor is dispatched to
LongPlainTarget ==
    IF AtToken /\ ClassifiesLong(Arg(p)) /\ ~HasEq(Arg(p))
    THEN FirstFit(result.long_options_m, LAMBDA o : full_option_name(o) = Arg(p))
    ELSE 0

\* the entity a long-option token with '=' at the cursor is dispatched to
LongEqTarget ==
    IF AtToken /\ ClassifiesLong(Arg(p)) /\ HasEq(Arg(p))
    THEN FirstFit(result.long_options_m,
                  LAMBDA o : full_option_name(o) = BeforeEq(Arg(p)) /\ HasEqualSign(o))
    ELSE 0

ResultIds == {result.order_options_m[k] : k \in 1..Len(result.order_options_m)}

\* the values the parse has stored into the option at id, in order
RECURSIVE ReceivedIn(_, _)
ReceivedIn(tr, id) ==
    IF tr = <<>> THEN <<>>
    ELSE IF Head(tr).target = id THEN Head(tr).values \o ReceivedIn(Tail(tr), id)
    ELSE ReceivedIn(Tail(tr), id)

Received(id) == ReceivedIn(trace, id)

\* a token naming the option at id was dispatched to it
Dispatched(id) == \E k \in 1..Len(trace) : trace[k].target = id

LastEvent == trace[Len(trace)]

\* ------------------------------------------------------------------ C1
\* C1: after a parse in which a valued option was supplied k >= 1 values
\* (k <= limit), its stored sequence is exactly those k values in order (no
\* default remains) and it is used.
C1_SuppliedValuesReplaceDefaults ==
    pc = "done" =>
        \A id \in ResultIds :
            (heap[id].cls = "OptionHasValue"
             /\ Len(Received(id)) >= 1
             /\ Len(Received(id)) <= heap[id].value_info_m.limit_m)
            => (heap[id].use_m /\ heap[id].value_m = Received(id))

\* ------------------------------------------------------------------ C2
\* C2: after a parse, an option is used if and only if a token naming it was
\* dispatched to it during that parse.
C2_UsedIffDispatched ==
    pc = "done" => \A id \in ResultIds : heap[id].use_m <=> Dispatched(id)

\* ------------------------------------------------------------------ C3
\* all: the values of `all` stored one by one under limit L: appended while fewer
\* than L are stored, written over slot L afterwards
ClampTo(L, all) ==
    IF Len(all) <= L THEN all
    ELSE SubSeq(all, 1, L - 1) \o <<all[Len(all)]>>

CountWithinLimit ==
    \A id \in 1..Len(heap) :
        heap[id].cls = "OptionHasValue"
        => Len(heap[id].value_m) <= heap[id].value_info_m.limit_m

ValuesClamped ==
    (pc = "parse" /\ pc' = "parse" /\ trace' # trace /\ LastEvent'.values # <<>>)
    => LET id == LastEvent'.target
       IN heap'[id].value_m
            = ClampTo(heap[id].value_info_m.limit_m, heap[id].value_m \o LastEvent'.values)

\* C3: a valued option with limit L never stores more than L values (after
\* registration of its defaults and after every step of a parse), and the values a
\* parse step accepts are appended up to L and written over slot L from then on,
\* slots 1..L-1 and the count staying as they are.
C3_CountNeverExceedsLimit == [][CountWithinLimit' /\ ValuesClamped]_vars

C3_Witness ==
    /\ pc = "done"
    /\ \E id \in ResultIds :
          /\ heap[id].cls = "OptionHasValue"
          /\ Len(Received(id)) > heap[id].value_info_m.limit_m
          /\ Len(heap[id].value_m) = heap[id].value_info_m.limit_m

\* ------------------------------------------------------------------ C4
TemplateObjects ==
    [k \in 1..Len(map_m.order_options_m) |-> heap[map_m.order_options_m[k]]]

ResultObjects ==
    [k \in 1..Len(result.order_options_m) |-> heap[result.order_options_m[k]]]

IsRegistration == pc = "idle" /\ pc' = "idle"

\* C4: no step of parse (its clone, its loop, its return or its failure) changes the
\* registered template: the entities of map() keep their used flag and values and
\* the template keeps its leftover list; every parse starts from a copy equal to
\* that template.
C4_ParseLeavesTemplate ==
    [][IsRegistration
       \/ (/\ map_m' = map_m
           /\ TemplateObjects' = TemplateObjects
           /\ (pc' = "parse" /\ pc = "idle"
               => /\ ResultObjects' = TemplateObjects
                  /\ result'.none_options_m = map_m.none_options_m))]_vars

C4_Witness ==
    /\ pc = "done"
    /\ Len(trace) >= 1
    /\ ResultObjects # TemplateObjects

\* ------------------------------------------------------------------ C5
\* C5: every iteration of the parse loop that does not fail advances the cursor
\* by 1 or 2 (so the loop ends after at most argc - 1 iterations).
C5_IterationAdvances ==
    [][(pc = "parse" /\ pc' = "parse") => (p' = p + 1 \/ p' = p + 2)]_vars

\* ------------------------------------------------------------------ C6
NextArgTarget ==
    IF ShortTarget # 0 /\ HasNextArg(heap[ShortTarget]) THEN ShortTarget
    ELSE IF LongPlainTarget # 0 /\ HasNextArg(heap[LongPlainTarget]) THEN LongPlainTarget
    ELSE 0

FollowingUnusable ==
    p + 1 >= argc \/ ClassifiesShort(Arg(p + 1)) \/ ClassifiesLong(Arg(p + 1))

NextArgDispatch ==
    NextArgTarget # 0
    => IF FollowingUnusable
       THEN pc' = "error" /\ err' = "requires_argument" /\ heap' = heap /\ result' = result
       ELSE \/ pc' = "error" /\ err' \in {"conversion", "constraint"} /\ heap' = heap
            \/ /\ pc' = "parse"
               /\ p' = p + 2
               /\ result' = result
               /\ LastEvent'.at = p
               /\ LastEvent'.target = NextArgTarget
               /\ transform(heap[NextArgTarget].value_info_m.T, Arg(p + 1)).ok
               /\ LastEvent'.values
                    = <<transform(heap[NextArgTarget].value_info_m.T, Arg(p + 1)).value>>
               /\ heap'[NextArgTarget].use_m

\* C6: a short-option token, or a long-option token without '=', dispatched to an
\* entity with NEXT_ARG capability fails with "requires an argument" when the
\* following token is missing or classifies as an option; otherwise that one token
\* is handed to add_value_s, the cursor advances by 2 and leftovers stay as they are.
C6_NextArgConsumed == [][NextArgDispatch]_vars

C6_Witness ==
    /\ pc = "done"
    /\ \E k \in 1..Len(trace) : trace[k].consumed = 2 /\ Len(trace[k].values) = 1
    /\ result.none_options_m = <<>>

\* ------------------------------------------------------------------ C7
UnknownShort == AtToken /\ ClassifiesShort(Arg(p)) /\ ShortTarget = 0

UnknownLong ==
    /\ AtToken /\ ClassifiesLong(Arg(p))
    /\ \A k \in 1..Len(result.long_options_m) :
          full_option_name(heap[result.long_options_m[k]]) # BeforeEq(Arg(p))

NoEqualSignLong == AtToken /\ ClassifiesLong(Arg(p)) /\ HasEq(Arg(p)) /\ LongEqTarget = 0

\* C7: a short-option token that is the full name of no registered short option, a
\* long-option token whose part before '=' is the full name of no registered long
\* option, and a long-option token with '=' whose name no EQUAL_SIGN-capable long
\* option bears, each fail with "unrecognized option" and store nothing.
C7_UnrecognizedOption ==
    [][(UnknownShort \/ UnknownLong \/ NoEqualSignLong)
       => (pc' = "error" /\ err' = "unrecognized" /\ heap' = heap /\ result' = result)]_vars

C7_Witness ==
    /\ pc = "error" /\ err = "unrecognized"
    /\ HasEq(Arg(p))
    /\ \E k \in 1..Len(result.long_options_m) :
          full_option_name(heap[result.long_options_m[k]]) = BeforeEq(Arg(p))

\* ------------------------------------------------------------------ C8
EqualSignOnlyName ==
    /\ AtToken /\ ClassifiesLong(Arg(p)) /\ ~HasEq(Arg(p))
    /\ \E k \in 1..Len(result.long_options_m) :
          full_option_name(heap[result.long_options_m[k]]) = Arg(p)
    /\ \A k \in 1..Len(result.long_options_m) :
          full_option_name(heap[result.long_options_m[k]]) = Arg(p)
          => (~IsFlag(heap[result.long_options_m[k]])
              /\ ~HasNextArg(heap[result.long_options_m[k]]))

\* C8: a long-option token without '=' whose name is registered only as
\* EQUAL_SIGN-only fails with "unrecognized option".
C8_EqualSignOnlyWithoutValue ==
    [][EqualSignOnlyName => (pc' = "error" /\ err' = "unrecognized")]_vars

\* ------------------------------------------------------------------ C9
\* the pieces of str between its commas, left to right; a ',' at the very end
\* closes the last piece and opens no further one
PieceStarts(str) ==
    {st \in 1..Len(str) : st = 1 \/ str[st - 1] = ","}

PieceFrom(str, st) ==
    SubSeq(str, st,
           IF \E c \in st..Len(str) : str[c] = ","
           THEN (CHOOSE c \in st..Len(str) : str[c] = "," /\ \A d \in st..(c - 1) : str[d] # ",") - 1
           ELSE Len(str))

CommaPieces(str) ==
    [k \in 1..Cardinality(PieceStarts(str)) |->
        PieceFrom(str, CHOOSE st \in PieceStarts(str) :
                          Cardinality({x \in PieceStarts(str) : x < st}) = k - 1)]

Converted(T, pieces) == [k \in 1..Len(pieces) |-> transform(T, pieces[k]).value]

EqualSignDispatch ==
    LongEqTarget # 0
    => IF AfterEq(Arg(p)) = <<>>
       THEN pc' = "error" /\ err' = "missing_value" /\ heap' = heap /\ result' = result
       ELSE \/ pc' = "error" /\ err' \in {"conversion", "constraint"}
            \/ /\ pc' = "parse"
               /\ p' = p + 1
               /\ result' = result
               /\ LastEvent'.at = p
               /\ LastEvent'.target = LongEqTarget
               /\ LastEvent'.values
                    = Converted(heap[LongEqTarget].value_info_m.T, CommaPieces(AfterEq(Arg(p))))
               /\ heap'[LongEqTarget].use_m
               /\ heap'[LongEqTarget].value_m
                    = ClampTo(heap[LongEqTarget].value_info_m.limit_m,
                              heap[LongEqTarget].value_m \o LastEvent'.values)

\* C9: a long-option token with '=' dispatched to an EQUAL_SIGN-capable entity fails
\* with "missing value after =" and changes nothing when nothing follows the first
\* '='; otherwise the text after it is split on ',' and every piece is stored in
\* order under the limit clamp, the entity is used, the cursor advances by 1 and
\* leftovers stay as they are.
C9_EqualSignValues == [][EqualSignDispatch]_vars

C9_Witness ==
    /\ pc = "done"
    /\ \E k \in 1..Len(trace) :
          trace[k].kind = "long_option" /\ trace[k].consumed = 1 /\ Len(trace[k].values) = 3

\* ----------------------------------------------------------------- C10
\* C10 as stated: the leftovers of a returned parse are all the tokens after the
\* program name that classify neither as a short nor as a long option, in order.
C10_AllPositionalsLeftOver ==
    pc = "done"
    => result.none_options_m = SelectSeq(SubSeq(argv, 2, Len(argv)), ClassifiesPositional)

\* the token at index i was taken as the argument of the NEXT_ARG dispatch before it
ConsumedAsArgument(i) ==
    \E k \in 1..Len(trace) : trace[k].consumed = 2 /\ trace[k].at + 1 = i

LeftoverIndices ==
    {i \in 1..(argc - 1) : ClassifiesPositional(Arg(i)) /\ ~ConsumedAsArgument(i)}

ExpectedLeftovers ==
    [k \in 1..Cardinality(LeftoverIndices) |->
        Arg(CHOOSE i \in LeftoverIndices : Cardinality({j \in LeftoverIndices : j < i}) = k - 1)]

FlagTarget ==
    IF ShortTarget # 0 /\ IsFlag(heap[ShortTarget]) THEN ShortTarget
    ELSE IF LongPlainTarget # 0 /\ IsFlag(heap[LongPlainTarget]) THEN LongPlainTarget
    ELSE 0

PositionalStep ==
    /\ (AtToken /\ ClassifiesPositional(Arg(p)))
       => /\ pc' = "parse"
          /\ p' = p + 1
          /\ result'.none_options_m = Append(result.none_options_m, Arg(p))
          /\ heap' = heap
    /\ FlagTarget # 0
       => /\ pc' = "parse"
          /\ p' = p + 1
          /\ result' = result
          /\ heap'[FlagTarget].use_m
    /\ pc' = "done" => result'.none_options_m = ExpectedLeftovers'

\* C10 (amended): every token the cursor reaches (one not taken as the argument of
\* the NEXT_ARG dispatch before it) that classifies neither as a short nor as a long
\* option is appended verbatim to leftovers, in order, without an error, "-", "--"
\* and "---..." included; a flag never takes the token after it.
C10_PositionalsAtCursorLeftOver == [][PositionalStep]_vars

C10_Witness ==
    /\ pc = "done"
    /\ Len(argv) = 3
    /\ argv[2] = <<"-", "f">>
    /\ argv[3] = <<"-", "-">>
    /\ result.none_options_m = <<<<"-", "-">>>>
    /\ \E id \in ResultIds : IsFlag(heap[id]) /\ heap[id].use_m

\* ----------------------------------------------------------------- C11
\* the element type of a requested type: T::value_type for a container, T itself
\* for a scalar and for std::string
ElementType(T) == IF T \in {"int", "vector<int>"} THEN "int" ELSE "string"

IsContainer(T) == T \in {"vector<int>", "vector<string>"}

AsOutcome ==
    LET o == heap[ret.id]
    IN IF IsFlag(o) THEN ret.thrown = "cannot_receive"
       ELSE IF o.value_info_m.T # ElementType(ret.type) THEN ret.thrown = "bad_type"
       ELSE IF Len(o.value_m) = 0 THEN ret.thrown = "no_value"
       ELSE /\ ret.thrown = "none"
            /\ IF IsContainer(ret.type) THEN ret.value = o.value_m
               ELSE ret.value = o.value_m[1]

\* C11: as<U> on a query handle fails for a flag, fails with a type error when the
\* stored element type differs from U's element type, fails with "no value present"
\* when nothing is stored, and otherwise returns the first stored value (scalar U) or
\* the whole stored sequence in order (container U); it changes no entity.
C11_AsExtractsStoredValues ==
    [][ret'.op = "as"
       => (heap' = heap /\ result' = result /\ map_m' = map_m /\ AsOutcome')]_vars

C11_Witness ==
    /\ ret.op = "as"
    /\ ret.thrown = "none"
    /\ ret.type = "vector<int>"
    /\ Len(ret.value) = 3
    /\ ret.value = heap[ret.id].value_m

\* ----------------------------------------------------------------- C12
LookupOps == {"ouse", "luse", "use"}

EndsWith(name, ch) == Len(name) >= 1 /\ name[Len(name)] = ch

Stripped(name) == SubSeq(name, 1, Len(name) - 1)

\* the entity a long-option lookup of `name` selects, 0 if there is none
LongLookupTarget(name) ==
    IF EndsWith(name, "=")
    THEN FirstFit(result.long_options_m,
                  LAMBDA o : o.name_m = Stripped(name) /\ HasEqualSign(o))
    ELSE IF EndsWith(name, " ")
         THEN FirstFit(result.long_options_m,
                       LAMBDA o : o.name_m = Stripped(name) /\ HasNextArg(o))
         ELSE FirstFit(result.long_options_m, LAMBDA o : o.name_m = name)

ShortLookupTarget(name) == FirstFit(result.options_m, LAMBDA o : o.name_m = name)

LookupTarget(op, name) ==
    IF op = "ouse" THEN ShortLookupTarget(name)
    ELSE IF op = "luse" THEN LongLookupTarget(name)
    ELSE IF EndsWith(name, "=") \/ EndsWith(name, " ") THEN LongLookupTarget(name)
    ELSE IF ShortLookupTarget(name) # 0 THEN ShortLookupTarget(name)
    ELSE LongLookupTarget(name)

LookupOutcome ==
    /\ ret.id = LookupTarget(ret.op, ret.arg)
    /\ ret.thrown = IF ret.id = 0 THEN "no_such_option" ELSE "none"

\* C12: ouse, luse and use return the first registered entity whose bare name is the
\* name asked for (use looking at short options first); luse and use take name+"="
\* for the first long option of that name with EQUAL_SIGN capability and name+" "
\* for the first with NEXT_ARG capability; each fails with a lookup error when there
\* is no such entity, and none changes the registry.
C12_RegistryLookup ==
    [][ret'.op \in LookupOps
       => (heap' = heap /\ result' = result /\ map_m' = map_m /\ LookupOutcome')]_vars

\* ----------------------------------------------------------------- C13
\* limit(n) has failed exactly when n = 0 or n is below the number of defaults
LimitChecked ==
    vinfo.op = "limit"
    => (vinfo.thrown = "logic_error"
        <=> (vinfo.n = 0 \/ vinfo.n < Len(vinfo.info.default_value_m)))

\* C13: every Value<T> descriptor that was constructed and configured holds at most
\* limit defaults: limit(n) fails when n = 0 or n is below the number of defaults,
\* and no constructor or configuration call leaves more defaults than the limit
\* (1 unless set).
C13_DefaultsWithinLimit ==
    /\ Len(vinfo.info.default_value_m) <= vinfo.info.limit_m
    /\ LimitChecked

\* ----------------------------------------------------------------- C14
LongIds == {result.long_options_m[k] : k \in 1..Len(result.long_options_m)}

\* a flag F and an EQUAL_SIGN-only valued option V registered under one long name
Coexist(F, V) ==
    /\ F \in LongIds /\ V \in LongIds
    /\ IsFlag(heap[F])
    /\ heap[V].cls = "OptionHasValue" /\ heap[V].arg_pattern_m = EQUAL_SIGN
    /\ heap[V].name_m = heap[F].name_m

CoexistStep(F, V) ==
    (AtToken /\ ClassifiesLong(Arg(p)) /\ BeforeEq(Arg(p)) = full_option_name(heap[F]))
    => IF ~HasEq(Arg(p))
       THEN /\ pc' = "parse"
            /\ p' = p + 1
            /\ heap'[F].use_m
            /\ heap'[V] = heap[V]
       ELSE /\ heap'[F] = heap[F]
            /\ \/ pc' = "error" /\ err' \in {"missing_value", "conversion", "constraint"}
               \/ /\ pc' = "parse"
                  /\ p' = p + 1
                  /\ heap'[V].use_m
                  /\ LastEvent'.target = V
                  /\ LastEvent'.values
                       = Converted(heap[V].value_info_m.T, CommaPieces(AfterEq(Arg(p))))

\* C14: a long option registered with a trailing '=' and a flag of the same name
\* coexist in either registration order: "--name" marks the flag used and leaves the
\* valued option as it is, "--name=v" stores v in the valued option and leaves the
\* flag as it is.
C14_FlagAndValuedCoexist ==
    [][\A F \in 1..Len(heap), V \in 1..Len(heap) : Coexist(F, V) => CoexistStep(F, V)]_vars

\* ----------------------------------------------------------------- C15
HasConstraint(option) ==
    option.cls = "OptionHasValue" /\ option.value_info_m.constraint_m # "none"

Violates(option, x) == ~Satisfies(option.value_info_m.constraint_m, x)

StoredSatisfy ==
    \A id \in 1..Len(heap) :
        HasConstraint(heap[id])
        => \A k \in 1..Len(heap[id].value_m) : ~Violates(heap[id], heap[id].value_m[k])

\* the entity the token at the cursor hands values to, and those values in order
HandedTarget ==
    IF LongEqTarget # 0 THEN LongEqTarget
    ELSE IF NextArgTarget # 0 /\ ~FollowingUnusable THEN NextArgTarget
    ELSE 0

Handed ==
    IF LongEqTarget # 0
    THEN Converted(heap[LongEqTarget].value_info_m.T, CommaPieces(AfterEq(Arg(p))))
    ELSE <<transform(heap[NextArgTarget].value_info_m.T, Arg(p + 1)).value>>

HandedConvert ==
    IF LongEqTarget # 0
    THEN \A k \in 1..Len(CommaPieces(AfterEq(Arg(p)))) :
            transform(heap[LongEqTarget].value_info_m.T, CommaPieces(AfterEq(Arg(p)))[k]).ok
    ELSE transform(heap[NextArgTarget].value_info_m.T, Arg(p + 1)).ok

FirstViolation ==
    CHOOSE k \in 1..Len(Handed) :
        /\ Violates(heap[HandedTarget], Handed[k])
        /\ \A j \in 1..(k - 1) : ~Violates(heap[HandedTarget], Handed[j])

\* the values handed over before the first one that violates the constraint
Accepted == SubSeq(Handed, 1, FirstViolation - 1)

ConstraintRejects ==
    (/\ HandedTarget # 0
     /\ HasConstraint(heap[HandedTarget])
     /\ HandedConvert
     /\ \E k \in 1..Len(Handed) : Violates(heap[HandedTarget], Handed[k]))
    => /\ pc' = "error"
       /\ err' = "constraint"
       /\ result' = result
       /\ heap' = [heap EXCEPT
                     ![HandedTarget].value_m =
                         ClampTo(heap[HandedTarget].value_info_m.limit_m, @ \o Accepted),
                     ![HandedTarget].use_m = @ \/ Accepted # <<>>]

\* C15: the stored values of a valued option with a constraint all satisfy it, after
\* registration, after clone and after every step of a parse; a value that violates
\* it is rejected with a constraint error and leaves the option (values, count, used
\* flag) as the values accepted before it left it.
C15_ConstraintHolds == [][StoredSatisfy' /\ ConstraintRejects]_vars

C15_Witness ==
    /\ pc = "error" /\ err = "constraint"
    /\ HasEq(Arg(p))
    /\ \E id \in ResultIds :
          /\ HasConstraint(heap[id])
          /\ heap[id].value_m # <<>>
          /\ \A k \in 1..Len(heap[id].value_m) : ~Violates(heap[id], heap[id].value_m[k])

\* ----------------------------------------------------------------- C16
\* the events tile the indices 1..argc-1: each token belongs to exactly one event
EventsTile ==
    /\ (trace = <<>>) <=> (argc = 1)
    /\ \A k \in 1..Len(trace) :
          /\ trace[k].consumed \in {1, 2}
          /\ trace[k].at = IF k = 1 THEN 1 ELSE trace[k - 1].at + trace[k - 1].consumed
    /\ trace # <<>> => LastEvent.at + LastEvent.consumed = argc

\* the first registered entity of the token's partition whose full name and
\* capability fit the form of the token, 0 if there is none
EntityFor(tok) ==
    IF ClassifiesShort(tok)
    THEN FirstFit(result.options_m, LAMBDA o : full_option_name(o) = tok)
    ELSE IF HasEq(tok)
         THEN FirstFit(result.long_options_m,
                       LAMBDA o : full_option_name(o) = BeforeEq(tok) /\ HasEqualSign(o))
         ELSE FirstFit(result.long_options_m,
                       LAMBDA o : full_option_name(o) = tok /\ (IsFlag(o) \/ HasNextArg(o)))

EventsFitTokens ==
    \A k \in 1..Len(trace) :
        LET tok == Arg(trace[k].at)
        IN IF ClassifiesPositional(tok)
           THEN trace[k].kind = "none_option" /\ trace[k].consumed = 1 /\ trace[k].target = 0
           ELSE /\ trace[k].kind # "none_option"
                /\ trace[k].target # 0
                /\ trace[k].target = EntityFor(tok)
                /\ trace[k].consumed = 2 <=> (~HasEq(tok) /\ HasNextArg(heap[trace[k].target]))
                /\ trace[k].consumed = 2 => ClassifiesPositional(Arg(trace[k].at + 1))

LeftoverEvents == SelectSeq(trace, LAMBDA e : e.kind = "none_option")

LeftoversAreEvents ==
    /\ Len(result.none_options_m) = Len(LeftoverEvents)
    /\ \A k \in 1..Len(LeftoverEvents) :
          /\ result.none_options_m[k] = Arg(LeftoverEvents[k].at)
          /\ LeftoverEvents[k].at >= 1
          /\ result.none_options_m[k] # ProgName

\* entities no token was dispatched to are as registered, the others are used
OthersAsRegistered ==
    \A k \in 1..Len(result.order_options_m) :
        IF Dispatched(result.order_options_m[k])
        THEN heap[result.order_options_m[k]].use_m
        ELSE heap[result.order_options_m[k]] = heap[map_m.order_options_m[k]]

Accounting == EventsTile /\ EventsFitTokens /\ LeftoversAreEvents /\ OthersAsRegistered

DispatchFrame ==
    (pc = "parse" /\ trace' # trace)
    => /\ Len(heap') = Len(heap)
       /\ \A id \in 1..Len(heap) : id # LastEvent'.target => heap'[id] = heap[id]
       /\ LastEvent'.target # 0 => result' = result

\* C16: in a parse that returns, every token after the program name is used exactly
\* once: as an option token dispatched to the first registered entity of its
\* partition whose full name and capability fit, as the argument of the NEXT_ARG
\* dispatch right before it, or as a leftover; leftovers are the tokens of the third
\* kind in order, the program name is neither parsed nor stored, and a dispatch
\* changes the matched entity only.
C16_TokenAccounting == [][DispatchFrame /\ (pc' = "done" => Accounting')]_vars

C16_Witness ==
    /\ pc = "done"
    /\ Len(trace) = 1
    /\ trace[1].consumed = 2
    /\ result.none_options_m = <<>>
    /\ \E id \in ResultIds : id # trace[1].target /\ ~heap[id].use_m

====
